---- MODULE Spec2Model ----
(***************************************************************************)
(* Model of ros/src/waypoint_updater/waypoint_updater.py: the node that    *)
(* publishes, at a fixed rate, the next LOOKAHEAD_WPS route points ahead   *)
(* of the vehicle, with a deceleration ramp towards a stop line.           *)
(*                                                                         *)
(* Units.  Positions are integers.  Speeds (waypoint twist.linear.x,       *)
(* current_vel, computed ramp speeds) are integers counting hundredths, so *)
(* 10.0 is 1000, MAX_DECEL = 0.28 is 28 and the near-zero threshold 1.0 is *)
(* 100.  Routes are built from steps whose Euclidean length is an integer, *)
(* so that math.sqrt is exact on every segment the model walks.            *)
(*                                                                         *)
(* Indices are the Python (0-based) indices of the source; PyIndex and     *)
(* PySlice translate them to the 1-based sequences of TLA+.                 *)
(*                                                                         *)
(* None / an attribute that was never assigned is the empty sequence <<>>; *)
(* a value that is set is wrapped as <<value>> (pose, current_vel) or is   *)
(* the non-empty list itself (base_waypoints, waypoints_2d).               *)
(*                                                                         *)
(* Steps.  In Spec each subscriber callback and each iteration of the      *)
(* while loop of loop() is one step; callbacks interleave freely between   *)
(* iterations.  An exception that leaves loop() is not caught (only        *)
(* ROSInterruptException is, line 186) and ends the process.               *)
(*                                                                         *)
(* In SpecConc the threads interleave statement by statement: the main     *)
(* thread runs loop() line by line (pc is the line it is about to run,     *)
(* frame holds the local variables of the iteration), the subscriber       *)
(* thread of /base_waypoints runs waypoints_cb line by line (cb), the      *)
(* other callbacks are single assignments, and rospy may be shut down.     *)
(***************************************************************************)
EXTENDS Integers, Sequences, FiniteSets, TLC

VARIABLES
    stopline_wp_idx,   \* self.stopline_wp_idx
    pose,              \* self.pose: <<>> or << <<x, y>> >>
    base_waypoints,    \* self.base_waypoints: <<>> or the list of waypoints
    waypoints_2d,      \* self.waypoints_2d: <<>> or the list of <<x, y>>
    waypoint_tree,     \* self.waypoint_tree: <<>> or << KDTree >>
    is_braking,        \* self.is_braking
    current_vel,       \* self.current_vel: <<>> (never assigned) or <<v>>
    pc,                \* "loop": the main thread is in loop(); "crashed": an
                       \* exception left loop() and ended the process; in
                       \* SpecConc, the line the main thread is about to run
    shutdown,          \* rospy.is_shutdown()
    frame,             \* SpecConc: local variables of the iteration in progress
    cb,                \* SpecConc: the invocation of waypoints_cb in progress
    final_waypoints,   \* what the step just taken published on final_waypoints:
                       \* <<>> or << list of waypoints >>
    last               \* what the step just taken was: a callback (branch
                       \* "none") or a loop iteration, with the values it read

vars == <<stopline_wp_idx, pose, base_waypoints, waypoints_2d, waypoint_tree,
          is_braking, current_vel, pc, shutdown, frame, cb, final_waypoints, last>>

-----------------------------------------------------------------------------
(* Program constants *)

LOOKAHEAD_WPS == 100
MAX_DECEL == 28
MIN_STOP_TIME == 3
VEL_FLOOR == 10
NEAR_ZERO == 100
STOP_BACKOFF == 4

(* Bounds of the model *)

MaxRouteLen == 7

Centi == 10 * 10

-----------------------------------------------------------------------------
(* Arithmetic *)

Min(a, b) == IF a < b THEN a ELSE b
Max(a, b) == IF a > b THEN a ELSE b

\* math.sqrt on the squares the model produces (exact on perfect squares).
Sqrt(n) == CHOOSE r \in 0..n : r * r <= n /\ (r + 1) * (r + 1) > n

-----------------------------------------------------------------------------
(* Python lists *)

InRange(s, i) == -Len(s) <= i /\ i < Len(s)
PyIndex(s, i) == IF i >= 0 THEN s[i + 1] ELSE s[Len(s) + i + 1]

\* s[lo:hi] for 0 <= lo: clipped at the end of the list, never wrapping.
\* (variant: a slice that wraps past the end of the list)
PySlice_wrap(s, lo, hi) ==
    [k \in 1..(hi - lo) |-> s[((lo + k - 1) % Len(s)) + 1]]
PySlice(s, lo, hi) ==
    [k \in 1..Max(Min(hi, Len(s)) - Min(lo, Len(s)), 0) |-> s[lo + k]]

-----------------------------------------------------------------------------
(* Messages *)

Waypoint(x, y, z, v) == [x |-> x, y |-> y, z |-> z, v |-> v]

\* The point of index k (0-based) of a route, by spacing pattern.
Position(sp, k) ==
    CASE sp = "unit"  -> <<k, 0, 0>>
      [] sp = "climb" -> <<2 * k, k, 2 * k>>
      [] sp = "mixed" -> <<((k + 1) \div 2) + 3 * (k \div 2), 4 * (k \div 2), 0>>
      [] sp = "dup"   -> <<k \div 2, 0, 0>>

\* The target speed of the point of index k, by speed pattern.
Speed(vp, k) ==
    CASE vp = "flat"    -> 1000
      [] vp = "rising"  -> Centi * (k + 1)
      [] vp = "falling" -> IF k = 0 THEN 1000 ELSE 120
      [] vp = "neg"     -> IF k % 2 = 1 THEN -100 ELSE 1000
      [] vp = "slow"    -> 50

Route(n, sp, vp) ==
    [k1 \in 1..n |->
        LET p == Position(sp, k1 - 1)
        IN  Waypoint(p[1], p[2], p[3], Speed(vp, k1 - 1))]

\* The routes delivered on /base_waypoints: short ones in a few spacing and
\* speed patterns, and a route twice as long as the lookahead window.
RouteKinds ==
    {<<"unit", "flat">>, <<"unit", "neg">>, <<"mixed", "flat">>,
     <<"mixed", "rising">>, <<"mixed", "falling">>, <<"climb", "slow">>,
     <<"climb", "rising">>, <<"dup", "neg">>}
RouteLens == {1, MaxRouteLen - 1, MaxRouteLen}
ShortRoutes == {Route(n, kind[1], kind[2]) : n \in RouteLens, kind \in RouteKinds}
LongRoutes == {Route(2 * LOOKAHEAD_WPS, "unit", "flat")}
Routes == ShortRoutes \cup LongRoutes

\* The values the other topics deliver.
Positions == {<<0, 0>>, <<2, 0>>, <<50, 0>>, <<150, 0>>}
StopIndices == {-1, -5, 3, 6, 70, 150}
Velocities == {-100, 0, 300, 1000}

NonNegative(waypoints) == \A k \in 1..Len(waypoints) : waypoints[k].v >= 0

-----------------------------------------------------------------------------
(* distance *)

dl(a, b) ==
    Sqrt((a.x - b.x) * (a.x - b.x) + (a.y - b.y) * (a.y - b.y)
         + (a.z - b.z) * (a.z - b.z))

\* The body of the for loop of distance: `prev` is the running wp1.
RECURSIVE distance_loop(_, _, _, _)
distance_loop(waypoints, prev, i, wp2) ==
    IF i > wp2 THEN 0
    ELSE dl(PyIndex(waypoints, prev), PyIndex(waypoints, i))
         + distance_loop(waypoints, i, i + 1, wp2)

\* (variant: line 179 forgotten, every segment measured from the first point)
RECURSIVE distance_loop_no_advance(_, _, _, _)
distance_loop_no_advance(waypoints, prev, i, wp2) ==
    IF i > wp2 THEN 0
    ELSE dl(PyIndex(waypoints, prev), PyIndex(waypoints, i))
         + distance_loop_no_advance(waypoints, prev, i + 1, wp2)
distance_no_advance(waypoints, wp1, wp2) ==
    distance_loop_no_advance(waypoints, wp1, wp1, wp2)

distance(waypoints, wp1, wp2) == distance_loop(waypoints, wp1, wp1, wp2)

\* distance raises IndexError: some waypoints[i] of the loop is out of range.
distance_raises(waypoints, wp1, wp2) ==
    \E i \in wp1..wp2 : ~InRange(waypoints, i)

-----------------------------------------------------------------------------
(* get_closest_waypoint_idx *)

SqDist2(p, q) == (p[1] - q[1]) * (p[1] - q[1]) + (p[2] - q[2]) * (p[2] - q[2])

\* KDTree(points): the points, and which of several equally near points a
\* query answers (fixed when the tree is built).
KDTree(points, tie) == [data |-> points, tie |-> tie]

Nearest(tree, q) ==
    LET ds == {SqDist2(tree.data[k], q) : k \in 1..Len(tree.data)}
        m == CHOOSE d \in ds : \A e \in ds : d <= e
    IN  {i \in 0..(Len(tree.data) - 1) : SqDist2(tree.data[i + 1], q) = m}

\* waypoint_tree.query([x, y], 1)[1]
query(tree, q) ==
    LET near == Nearest(tree, q)
    IN  IF tree.tie = "first"
        THEN CHOOSE i \in near : \A j \in near : i <= j
        ELSE CHOOSE i \in near : \A j \in near : i >= j

Dot2(a, b) == a[1] * b[1] + a[2] * b[2]
Minus2(a, b) == <<a[1] - b[1], a[2] - b[2]>>

\* (variants: the nearest point returned as it is; the advance without the
\* modulo)
get_closest_waypoint_idx_no_advance(p, tree, pts) == query(tree, p)
get_closest_waypoint_idx_no_wrap(p, tree, pts) ==
    LET closest_idx == query(tree, p)
        closest_coord == PyIndex(pts, closest_idx)
        prev_coord == PyIndex(pts, closest_idx - 1)
        val == Dot2(Minus2(closest_coord, prev_coord), Minus2(p, closest_coord))
    IN  IF val > 0 THEN closest_idx + 1 ELSE closest_idx

get_closest_waypoint_idx(p, tree, pts) ==
    LET closest_idx == query(tree, p)
        closest_coord == PyIndex(pts, closest_idx)
        prev_coord == PyIndex(pts, closest_idx - 1)
        val == Dot2(Minus2(closest_coord, prev_coord), Minus2(p, closest_coord))
    IN  IF val > 0 THEN (closest_idx + 1) % Len(pts) ELSE closest_idx

-----------------------------------------------------------------------------
(* generate_lane and decelerate_waypoints *)

\* lines 101-103
\* (variant: no floor)
non_zero_current_vel_nofloor(cv) == cv
non_zero_current_vel(cv) == IF cv < VEL_FLOOR THEN VEL_FLOOR ELSE cv

\* line 108
\* (variant: > for >=)
NoActiveStop_off_by_one(stop, farthest_idx) == stop = -1 \/ stop > farthest_idx
NoActiveStop(stop, farthest_idx) == stop = -1 \/ stop >= farthest_idx

\* dist / non_zero_current_vel < MIN_STOP_TIME, dist in units, nz in hundredths
\* (nz # 0; a float division by zero raises ZeroDivisionError).
TimeBelowMin(dist, nz) ==
    IF nz > 0 THEN Centi * dist < MIN_STOP_TIME * nz
              ELSE Centi * dist > MIN_STOP_TIME * nz

\* line 111
\* (variant: the test of is_braking forgotten)
EscapeValve_no_hysteresis(dist, nz, braking) == TimeBelowMin(dist, nz)
EscapeValve(dist, nz, braking) == TimeBelowMin(dist, nz) /\ braking = FALSE

\* line 127
\* (variant: the four waypoints of back-off forgotten)
StopIdx_no_backoff(stop, closest_idx) == Max(stop - closest_idx, 0)
StopIdx(stop, closest_idx) == Max(stop - closest_idx - STOP_BACKOFF, 0)

\* lines 131-134
\* (variants: no clamp; the comparison of the clamp reversed)
RampVelocity_no_clamp(dist) == MAX_DECEL * dist
RampVelocity_flipped(dist) ==
    LET vel == MAX_DECEL * dist IN IF vel > NEAR_ZERO THEN 0 ELSE vel
RampVelocity(dist) ==
    LET vel == MAX_DECEL * dist IN IF vel < NEAR_ZERO THEN 0 ELSE vel

\* line 136
\* (variant: no cap)
CappedVelocity_no_cap(vel, orig) == vel
CappedVelocity(vel, orig) == Min(vel, orig)

decelerate_waypoints(waypoints, closest_idx, stop) ==
    [i1 \in 1..Len(waypoints) |->
        LET wp == waypoints[i1]
            stop_idx == StopIdx(stop, closest_idx)
            dist == distance(waypoints, i1 - 1, stop_idx)
        IN  [wp EXCEPT !.v = CappedVelocity(RampVelocity(dist), wp.v)]]

decelerate_raises(waypoints, closest_idx, stop) ==
    \E i \in 0..(Len(waypoints) - 1) :
        distance_raises(waypoints, i, StopIdx(stop, closest_idx))

-----------------------------------------------------------------------------
(* What a step was *)

NoIteration ==
    [branch |-> "none", closest_idx |-> 0, stop |-> -1, vel |-> <<>>,
     was_braking |-> FALSE, exc |-> "none"]

Iteration(branch, closest_idx, exc) ==
    [branch |-> branch, closest_idx |-> closest_idx, stop |-> stopline_wp_idx,
     vel |-> current_vel, was_braking |-> is_braking, exc |-> exc]

\* No iteration in progress: the local variables of generate_lane and
\* decelerate_waypoints, and `reads`, the values of self.stopline_wp_idx the
\* iteration has read so far.
NoFrame ==
    [closest_idx |-> 0, farthest_idx |-> 0, nz |-> 0, vel |-> <<>>,
     new_base_waypoints |-> <<>>, stop |-> -1, was_braking |-> FALSE,
     i |-> 0, temp |-> <<>>, lane |-> <<>>, branch |-> "none", reads |-> {}]

\* waypoints_cb is not running and /base_waypoints is subscribed.
NoCall == [line |-> "idle", waypoints |-> <<>>]

-----------------------------------------------------------------------------
(* State machine *)

Init ==
    /\ stopline_wp_idx = -1
    /\ pose = <<>>
    /\ base_waypoints = <<>>
    /\ waypoints_2d = <<>>
    /\ waypoint_tree = <<>>
    /\ is_braking = FALSE
    /\ current_vel = <<>>
    /\ pc = "loop"
    /\ shutdown = FALSE
    /\ frame = NoFrame
    /\ cb = NoCall
    /\ final_waypoints = <<>>
    /\ last = NoIteration

Callback ==
    /\ pc = "loop"
    /\ final_waypoints' = <<>>
    /\ last' = NoIteration
    /\ pc' = pc
    /\ UNCHANGED <<shutdown, frame, cb>>

velocity_cb ==
    /\ Callback
    /\ \E v \in Velocities : current_vel' = <<v>>
    /\ UNCHANGED <<stopline_wp_idx, pose, base_waypoints, waypoints_2d,
                   waypoint_tree, is_braking>>

pose_cb ==
    /\ Callback
    /\ \E p \in Positions : pose' = <<p>>
    /\ UNCHANGED <<stopline_wp_idx, base_waypoints, waypoints_2d,
                   waypoint_tree, is_braking, current_vel>>

\* (variant: every delivery is stored, the tests of lines 151 and 154 forgotten)
waypoints_cb_overwrite ==
    /\ Callback
    /\ \E waypoints \in Routes, tie \in {"first", "last"} :
       LET pts == [k \in 1..Len(waypoints) |-> <<waypoints[k].x, waypoints[k].y>>]
       IN  /\ waypoints_2d' = pts
           /\ waypoint_tree' = <<KDTree(pts, tie)>>
           /\ base_waypoints' = waypoints
    /\ UNCHANGED <<stopline_wp_idx, pose, is_braking, current_vel>>

waypoints_cb ==
    /\ Callback
    /\ IF waypoints_2d = <<>> \/ base_waypoints = <<>>
       THEN \E waypoints \in Routes, tie \in {"first", "last"} :
            LET pts == [k \in 1..Len(waypoints) |->
                           <<waypoints[k].x, waypoints[k].y>>]
            IN  /\ IF waypoints_2d = <<>>
                   THEN /\ waypoints_2d' = pts
                        /\ waypoint_tree' = <<KDTree(pts, tie)>>
                   ELSE UNCHANGED <<waypoints_2d, waypoint_tree>>
                /\ IF base_waypoints = <<>>
                   THEN base_waypoints' = waypoints
                   ELSE UNCHANGED base_waypoints
       ELSE \* the message is ignored, whatever it holds
            UNCHANGED <<waypoints_2d, waypoint_tree, base_waypoints>>
    /\ UNCHANGED <<stopline_wp_idx, pose, is_braking, current_vel>>

traffic_cb ==
    /\ Callback
    /\ \E data \in StopIndices : stopline_wp_idx' = data
    /\ UNCHANGED <<pose, base_waypoints, waypoints_2d, waypoint_tree,
                   is_braking, current_vel>>

obstacle_cb ==
    /\ Callback
    /\ UNCHANGED <<stopline_wp_idx, pose, base_waypoints, waypoints_2d,
                   waypoint_tree, is_braking, current_vel>>

\* An exception leaves generate_lane, publish_waypoints, loop and __init__:
\* nothing is published and the process ends.
Raise(closest_idx, exc) ==
    /\ pc' = "crashed"
    /\ final_waypoints' = <<>>
    /\ last' = Iteration("raise", closest_idx, exc)
    /\ UNCHANGED is_braking

Publish(lane, braking, branch, closest_idx) ==
    /\ pc' = pc
    /\ final_waypoints' = <<lane>>
    /\ is_braking' = braking
    /\ last' = Iteration(branch, closest_idx, "none")

\* One iteration of the while loop of loop().
loop ==
    /\ pc = "loop"
    /\ UNCHANGED <<stopline_wp_idx, pose, base_waypoints, waypoints_2d,
                   waypoint_tree, current_vel, shutdown, frame, cb>>
    /\ IF pose = <<>> \/ base_waypoints = <<>>
       THEN /\ pc' = pc
            /\ final_waypoints' = <<>>
            /\ last' = Iteration("skip", 0, "none")
            /\ UNCHANGED is_braking
       ELSE LET closest_idx ==
                    get_closest_waypoint_idx(pose[1], waypoint_tree[1], waypoints_2d)
                farthest_idx == closest_idx + LOOKAHEAD_WPS
                stop == stopline_wp_idx
            IN  IF current_vel = <<>>
                THEN Raise(closest_idx, "AttributeError")
                ELSE LET nz == non_zero_current_vel(current_vel[1])
                         new_base_waypoints ==
                             PySlice(base_waypoints, closest_idx, farthest_idx)
                     IN  IF NoActiveStop(stop, farthest_idx)
                         THEN Publish(new_base_waypoints, FALSE, "pass", closest_idx)
                         ELSE IF distance_raises(base_waypoints, closest_idx, stop)
                         THEN Raise(closest_idx, "IndexError")
                         ELSE IF nz = 0
                         THEN Raise(closest_idx, "ZeroDivisionError")
                         ELSE IF EscapeValve(distance(base_waypoints, closest_idx, stop),
                                             nz, is_braking)
                         THEN Publish(new_base_waypoints, is_braking, "escape",
                                      closest_idx)
                         ELSE IF decelerate_raises(new_base_waypoints, closest_idx, stop)
                         THEN Raise(closest_idx, "IndexError")
                         ELSE Publish(decelerate_waypoints(new_base_waypoints,
                                                           closest_idx, stop),
                                      TRUE, "decel", closest_idx)

Next ==
    \/ velocity_cb
    \/ pose_cb
    \/ waypoints_cb
    \/ traffic_cb
    \/ obstacle_cb
    \/ loop

Spec == Init /\ [][Next]_vars

TypeOK ==
    /\ is_braking \in BOOLEAN
    /\ pc \in {"loop", "crashed"}
    /\ Len(final_waypoints) <= 1
    /\ last.branch \in {"none", "skip", "pass", "escape", "decel", "raise"}

-----------------------------------------------------------------------------
(* Vocabulary of the properties: the loop iteration just taken *)

\* The step just taken was a loop iteration that got past the gate of line 63.
Ticked == last.branch \in {"pass", "escape", "decel", "raise"}
\* ... and published a lane.
Emitted == final_waypoints # <<>>
Lane == final_waypoints[1]

\* route[closestIdx : closestIdx + 100], written without the slice of the model.
Window(route, c) ==
    [k \in 1..(IF c + 100 <= Len(route) THEN 100 ELSE Len(route) - c) |-> route[c + k]]

\* The stop line was inside the horizon of the iteration.
InHorizon(it) == it.stop # -1 /\ it.stop < it.closest_idx + 100

\* max(stopLineIdx - closestIdx - 4, 0)
StopOffset(it) ==
    IF it.stop - it.closest_idx - 4 > 0 THEN it.stop - it.closest_idx - 4 ELSE 0

\* Arc length from window point i (0-based) to the stop offset point.
ArcToStop(it, i) ==
    distance(Window(base_waypoints, it.closest_idx), i, StopOffset(it))

\* remainingDistance / max(currentSpeed, 0.1) < 3.0
TooLate(it) ==
    LET d == distance(base_waypoints, it.closest_idx, it.stop)
        v == IF it.vel[1] > 10 THEN it.vel[1] ELSE 10
    IN  100 * d < 3 * v

-----------------------------------------------------------------------------
(* C1 *)

\* C1: hysteresis.  Once is_braking is true, every following loop iteration
\* leaves it true as long as the stop-line index it reads is not -1 and is
\* below closestIdx + 100, whatever the time-to-stop ratio is; the iteration
\* that reads -1 or an index >= closestIdx + 100 resets it to false.
C1_Hysteresis ==
    [][(is_braking /\ last'.branch # "none")
          => IF InHorizon(last') THEN is_braking' ELSE ~is_braking']_vars

\* A deceleration emitted while braking although the ratio was below 3.0.
C1_Witness ==
    /\ last.branch = "decel"
    /\ last.was_braking
    /\ is_braking
    /\ TooLate(last)

-----------------------------------------------------------------------------
(* C2 *)

\* C2: driver loop gating.  An iteration with pose and route both received
\* publishes exactly one lane without error, whatever else was received; an
\* iteration with one of them missing publishes nothing and raises nothing.
C2_LoopGating ==
    last.branch # "none" =>
        IF pose # <<>> /\ base_waypoints # <<>>
        THEN Len(final_waypoints) = 1 /\ last.exc = "none" /\ pc = "loop"
        ELSE Len(final_waypoints) = 0 /\ last.exc = "none" /\ pc = "loop"

-----------------------------------------------------------------------------
(* C3 *)

\* C3: graceful degradation.  With a current speed received, an iteration
\* completes and publishes a lane for every stop-line index, every closestIdx
\* and both values of is_braking, and a stop index >= closestIdx + 100 is
\* treated as no active stop (window unchanged, is_braking false).
C3_MalformedStopIndex ==
    (Ticked /\ last.vel # <<>>) =>
        /\ last.exc = "none"
        /\ Emitted
        /\ last.stop >= last.closest_idx + 100 =>
              /\ Lane = Window(base_waypoints, last.closest_idx)
              /\ ~is_braking

-----------------------------------------------------------------------------
(* C4 *)

\* C4: speed cap.  In every published lane, under every branch, the speed of
\* the point of window index i is at most the original speed of route point
\* closestIdx + i.
C4_SpeedCap ==
    Emitted =>
        \A k \in 1..Len(Lane) :
            Lane[k].v <= base_waypoints[last.closest_idx + k].v

\* A deceleration where the cap acts on one point (the ramp is above the route
\* speed) and the ramp on another (strictly between 0 and the route speed).
C4_Witness ==
    /\ Emitted
    /\ last.branch = "decel"
    /\ \E k \in 1..Len(Lane) :
          /\ Lane[k].v = base_waypoints[last.closest_idx + k].v
          /\ 28 * ArcToStop(last, k - 1) > Lane[k].v
    /\ \E k \in 1..Len(Lane) :
          /\ 0 < Lane[k].v
          /\ Lane[k].v < base_waypoints[last.closest_idx + k].v

-----------------------------------------------------------------------------
(* C5 *)

\* C5: full stop at the stop offset.  In a deceleration rewrite of a route
\* whose speeds are non-negative, every point of window index
\* >= max(stopLineIdx - closestIdx - 4, 0) has speed exactly 0.
C5_FullStop ==
    (Emitted /\ last.branch = "decel" /\ NonNegative(base_waypoints)) =>
        \A k \in 1..Len(Lane) :
            (k - 1 >= StopOffset(last)) => Lane[k].v = 0

\* A deceleration with a moving point before the stop offset, and with the
\* stop offset point, the stop line and points beyond it in the window.
C5_Witness ==
    /\ Emitted
    /\ last.branch = "decel"
    /\ NonNegative(base_waypoints)
    /\ StopOffset(last) > 0
    /\ Lane[1].v > 0
    /\ Len(Lane) > last.stop - last.closest_idx + 1

-----------------------------------------------------------------------------
(* C6 *)

\* C6 as claimed: in a deceleration rewrite, every point whose computed speed
\* 0.28 * (arc length to the stop offset point) is below 1.0 is published
\* with speed exactly 0.
C6_Claimed ==
    (Emitted /\ last.branch = "decel") =>
        \A k \in 1..Len(Lane) :
            28 * ArcToStop(last, k - 1) < 100 => Lane[k].v = 0

\* C6 as amended: such a point is published with min(0, original speed),
\* which is exactly 0 when its original speed is non-negative; and a
\* published speed strictly between 0 and 1.0 is never a computed speed: it
\* is the original speed of the point, below a computed speed of 1.0 or more.
C6_NearZeroClamp ==
    (Emitted /\ last.branch = "decel") =>
        \A k \in 1..Len(Lane) :
            LET orig == base_waypoints[last.closest_idx + k].v
                v == 28 * ArcToStop(last, k - 1)
            IN  /\ v < 100 => Lane[k].v = (IF orig < 0 THEN orig ELSE 0)
                /\ (0 < Lane[k].v /\ Lane[k].v < 100) => (Lane[k].v = orig /\ v >= 100)

\* A point with a computed speed strictly between 0 and 1.0 published as 0.
C6_Witness ==
    /\ Emitted
    /\ last.branch = "decel"
    /\ \E k \in 1..Len(Lane) :
          /\ 0 < 28 * ArcToStop(last, k - 1)
          /\ 28 * ArcToStop(last, k - 1) < 100
          /\ base_waypoints[last.closest_idx + k].v > 0
          /\ Lane[k].v = 0

-----------------------------------------------------------------------------
(* C7 *)

\* Window indices 0 .. stop offset that exist in the published lane.
UpToStop == {i \in 0..StopOffset(last) : i < Len(Lane)}

\* C7 as claimed: in a deceleration rewrite of any route, the published
\* speeds are non-increasing from window index 0 to the stop offset index.
C7_Claimed ==
    (Emitted /\ last.branch = "decel") =>
        \A i, j \in UpToStop : i < j => Lane[j + 1].v <= Lane[i + 1].v

\* The original speeds are non-increasing from index 0 to the stop offset.
OriginalNonIncreasing ==
    \A i, j \in UpToStop :
        i < j => base_waypoints[last.closest_idx + j + 1].v
                     <= base_waypoints[last.closest_idx + i + 1].v

\* C7 as amended: the same, for routes whose original speeds are
\* non-increasing from window index 0 to the stop offset index.
C7_MonotonicDecay ==
    (Emitted /\ last.branch = "decel" /\ OriginalNonIncreasing) =>
        \A i, j \in UpToStop : i < j => Lane[j + 1].v <= Lane[i + 1].v

\* A ramp that falls strictly, over original speeds that fall too.
C7_Witness ==
    /\ Emitted
    /\ last.branch = "decel"
    /\ OriginalNonIncreasing
    /\ \E i, j \in UpToStop :
          /\ i < j
          /\ Lane[j + 1].v < Lane[i + 1].v
          /\ 0 < Lane[j + 1].v
          /\ base_waypoints[last.closest_idx + j + 1].v
                 < base_waypoints[last.closest_idx + i + 1].v

-----------------------------------------------------------------------------
(* C8 *)

\* C8: escape valve.  An iteration that reads a stop-line index inside the
\* horizon with is_braking false and remainingDistance / max(speed, 0.1)
\* below 3.0 raises nothing (no division by zero, for speed 0 or negative
\* too), publishes the window unchanged and leaves is_braking false.
C8_EscapeValve ==
    (/\ Ticked
     /\ last.vel # <<>>
     /\ InHorizon(last)
     /\ ~last.was_braking
     /\ ~distance_raises(base_waypoints, last.closest_idx, last.stop)
     /\ TooLate(last))
    => /\ last.exc = "none"
       /\ final_waypoints = <<Window(base_waypoints, last.closest_idx)>>
       /\ ~is_braking

\* The example: 200 points 1 apart with speed 10, vehicle at point 50 with
\* speed 10, stop line at 70: points[50:150] unchanged.
C8_Witness ==
    /\ base_waypoints = Route(200, "unit", "flat")
    /\ pose = << <<50, 0>> >>
    /\ last.branch = "escape"
    /\ last.closest_idx = 50
    /\ last.stop = 70
    /\ last.vel = <<1000>>
    /\ ~last.was_braking
    /\ distance(base_waypoints, 50, 70) = 20
    /\ final_waypoints = <<SubSeq(base_waypoints, 51, 150)>>
    /\ ~is_braking

-----------------------------------------------------------------------------
(* C9 *)

\* The iteration read no active stop: -1 or an index >= closestIdx + 100.
NoStop(it) == it.stop = -1 \/ it.stop >= it.closest_idx + 100

\* C9: idempotence with no active stop.  Every iteration (with pose and route
\* received) that reads no active stop publishes route[closestIdx :
\* closestIdx + 100] with the original speeds, and an iteration that follows
\* such an iteration with nothing received in between publishes the same lane
\* and leaves is_braking as it was.
C9_NoStopIdempotent ==
    [][(last'.branch \in {"pass", "escape", "decel", "raise"} /\ NoStop(last'))
          => /\ final_waypoints' = <<Window(base_waypoints', last'.closest_idx)>>
             /\ (last.branch = "pass" =>
                    /\ is_braking' = is_braking
                    /\ final_waypoints' = final_waypoints)]_vars

-----------------------------------------------------------------------------
(* C10 *)

\* C10: window extraction.  A published lane has 100 points when
\* closestIdx + 100 <= len(route) and len(route) - closestIdx points
\* otherwise, and its k-th point is at the position of route point
\* closestIdx + k: it keeps the order and never wraps to index 0.
C10_WindowExtraction ==
    Emitted =>
        /\ Len(Lane) = (IF last.closest_idx + 100 <= Len(base_waypoints)
                        THEN 100
                        ELSE Len(base_waypoints) - last.closest_idx)
        /\ \A k \in 1..Len(Lane) :
              /\ last.closest_idx + k <= Len(base_waypoints)
              /\ Lane[k].x = base_waypoints[last.closest_idx + k].x
              /\ Lane[k].y = base_waypoints[last.closest_idx + k].y
              /\ Lane[k].z = base_waypoints[last.closest_idx + k].z

\* A short final window that starts inside the route.
C10_Witness ==
    /\ Emitted
    /\ last.closest_idx > 0
    /\ last.closest_idx + 100 > Len(base_waypoints)
    /\ Len(Lane) = Len(base_waypoints) - last.closest_idx
    /\ Len(Lane) > 1

-----------------------------------------------------------------------------
(* The position resolver on routes of any shape *)

\* Routes of at most MaxPts points on a small grid (they may turn, double
\* back and repeat a point), with a uniform speed, and vehicle positions on
\* and around the grid.
MaxPts == 3

GridPts == {<<x, y>> : x \in 0..2, y \in 0..1}
GridPositions == {<<x, y>> : x \in -1..3, y \in 0..1}

RECURSIVE GridPaths(_)
GridPaths(n) ==
    IF n = 0 THEN {<<>>}
    ELSE {Append(path, q) : path \in GridPaths(n - 1), q \in GridPts}

GridRoutes == UNION {GridPaths(n) : n \in 1..MaxPts}

\* The state after the route and a current speed have been received.
InitResolve ==
    /\ \E pts \in GridRoutes, tie \in {"first", "last"} :
          /\ waypoints_2d = pts
          /\ waypoint_tree = <<KDTree(pts, tie)>>
          /\ base_waypoints =
                 [k \in 1..Len(pts) |-> Waypoint(pts[k][1], pts[k][2], 0, 1000)]
    /\ stopline_wp_idx = -1
    /\ pose = <<>>
    /\ is_braking = FALSE
    /\ current_vel = <<0>>
    /\ pc = "loop"
    /\ shutdown = FALSE
    /\ frame = NoFrame
    /\ cb = NoCall
    /\ final_waypoints = <<>>
    /\ last = NoIteration

pose_cb_grid ==
    /\ Callback
    /\ \E p \in GridPositions : pose' = <<p>>
    /\ UNCHANGED <<stopline_wp_idx, base_waypoints, waypoints_2d,
                   waypoint_tree, is_braking, current_vel>>

NextResolve ==
    \/ pose_cb_grid
    \/ loop

SpecResolve == InitResolve /\ [][NextResolve]_vars

\* dot(route[r] - route[r-1], position - route[r]), r-1 modulo the length
HalfPlane(pts, r, p) ==
    LET cur == pts[r + 1]
        prev == pts[((r - 1) % Len(pts)) + 1]
    IN  (cur[1] - prev[1]) * (p[1] - cur[1]) + (cur[2] - prev[2]) * (p[2] - cur[2])

-----------------------------------------------------------------------------
(* C11 *)

\* C11: resolver postcondition.  The index r that an iteration resolves is
\* in the route and the point it designates is not strictly behind the
\* vehicle: dot(route[r] - route[r-1], position - route[r]) <= 0.
C11_ResolverPostcondition ==
    Ticked =>
        /\ last.closest_idx \in 0..(Len(waypoints_2d) - 1)
        /\ HalfPlane(waypoints_2d, last.closest_idx, pose[1]) <= 0

\* The nearest point was behind the vehicle and the resolver advanced to a
\* point that is strictly ahead of it.
C11_Witness ==
    /\ Ticked
    /\ last.closest_idx \notin Nearest(waypoint_tree[1], pose[1])
    /\ HalfPlane(waypoints_2d, last.closest_idx, pose[1]) < 0
    /\ \E c \in Nearest(waypoint_tree[1], pose[1]) :
          HalfPlane(waypoints_2d, c, pose[1]) > 0

-----------------------------------------------------------------------------
(* C12 *)

\* C12: wraparound.  The resolved index is always in 0 .. len(route) - 1;
\* when the nearest point is the last one and the dot product is positive
\* it is 0; when the nearest point is index 0 the test is made against the
\* last point of the route.
C12_Wraparound ==
    Ticked =>
        LET n == Len(waypoints_2d)
            c == query(waypoint_tree[1], pose[1])
            r == last.closest_idx
        IN  /\ r \in 0..(n - 1)
            /\ (c = n - 1 /\ HalfPlane(waypoints_2d, c, pose[1]) > 0) => r = 0
            /\ c = 0 =>
                  r = (IF Dot2(Minus2(waypoints_2d[1], waypoints_2d[n]),
                               Minus2(pose[1], waypoints_2d[1])) > 0
                       THEN 1 % n ELSE 0)

\* The vehicle is past the last point of a route of several points and the
\* resolver wraps to index 0.
C12_Witness ==
    /\ Ticked
    /\ Len(waypoints_2d) >= 2
    /\ query(waypoint_tree[1], pose[1]) = Len(waypoints_2d) - 1
    /\ HalfPlane(waypoints_2d, Len(waypoints_2d) - 1, pose[1]) > 0
    /\ last.closest_idx = 0
    /\ Emitted

-----------------------------------------------------------------------------
(* C13 *)

\* C13: route immutability.  Once the route is stored, no step changes the
\* stored route (positions and speeds), the 2D point list or the spatial
\* index: a later delivery is ignored and no iteration writes to them; and
\* the points of a rewritten window are at the positions of the route points
\* of the corresponding indices.
C13_RouteImmutability ==
    [][/\ base_waypoints # <<>> =>
              /\ base_waypoints' = base_waypoints
              /\ waypoints_2d' = waypoints_2d
              /\ waypoint_tree' = waypoint_tree
       /\ last'.branch = "decel" =>
              \A k \in 1..Len(final_waypoints'[1]) :
                 LET p == final_waypoints'[1][k]
                     wp == base_waypoints'[last'.closest_idx + k]
                 IN  p.x = wp.x /\ p.y = wp.y /\ p.z = wp.z]_vars

\* A deceleration was published with a speed that differs from the speed of
\* the route point, and the stored route still is the route as delivered.
C13_Witness ==
    /\ Emitted
    /\ last.branch = "decel"
    /\ \E k \in 1..Len(Lane) : Lane[k].v # base_waypoints[last.closest_idx + k].v
    /\ base_waypoints \in Routes
    /\ waypoints_2d = [k \in 1..Len(base_waypoints) |->
                          <<base_waypoints[k].x, base_waypoints[k].y>>]
    /\ waypoint_tree[1].data = waypoints_2d

-----------------------------------------------------------------------------
(* C14 *)

\* The setup of the example: 200 points 1 apart with speed 10, the vehicle at
\* point 50, and an iteration that read speed 3, stop line 70 and is_braking
\* false.
C14_Setup ==
    /\ Ticked
    /\ base_waypoints = Route(200, "unit", "flat")
    /\ pose = << <<50, 0>> >>
    /\ last.vel = <<300>>
    /\ last.stop = 70
    /\ ~last.was_braking

\* C14: end-to-end deceleration example.  In that setup the iteration
\* publishes the deceleration rewrite of route[50:150] and sets is_braking;
\* the point of window index 0 has speed 4.48 = 0.28 * 16 and the point of
\* window index 16 (route point 66) has speed 0.
C14_DecelerationExample ==
    C14_Setup =>
        /\ last.branch = "decel"
        /\ last.exc = "none"
        /\ is_braking
        /\ Emitted
        /\ last.closest_idx = 50
        /\ Len(Lane) = 100
        /\ Lane[1].v = 448
        /\ Lane[17].v = 0
        /\ Lane[17].x = 66

\* The example happened: the arc from point 50 to point 66 is 16 and the
\* arc to the stop line is 20, which is 3.0 s or more at speed 3.
C14_Witness ==
    /\ C14_Setup
    /\ Emitted
    /\ distance(base_waypoints, 50, 66) = 16
    /\ distance(base_waypoints, 50, 70) = 20
    /\ ~TooLate(last)
    /\ Lane[1].v = 448

-----------------------------------------------------------------------------
(* The threads, statement by statement *)

\* What the topics deliver in SpecConc: one route, with a ramp of several
\* speeds before a stop line at its last point.
ConcRoutes == {Route(MaxRouteLen, "mixed", "flat")}
ConcPositions == {<<0, 0>>, <<1, 0>>}
ConcStops == {-1, 3, MaxRouteLen - 1}
ConcVelocities == {0, 1000}

\* The lines of loop() and of the functions it calls, and the ways out.
TickLines == {"65", "98", "101", "108", "108b", "111", "127", "94"}
Exited == {"done", "interrupted", "crashed"}
Alive == pc \notin Exited

\* line 63
Gate == pose # <<>> /\ base_waypoints # <<>>

\* generate_lane for one value `stop` of self.stopline_wp_idx: the branch
\* taken, the lane returned and self.is_braking afterwards.
generate_lane(stop, closest_idx, nz, braking) ==
    LET farthest_idx == closest_idx + LOOKAHEAD_WPS
        new_base_waypoints == PySlice(base_waypoints, closest_idx, farthest_idx)
    IN  IF NoActiveStop(stop, farthest_idx)
        THEN [branch |-> "pass", lane |-> new_base_waypoints, is_braking |-> FALSE]
        ELSE IF distance_raises(base_waypoints, closest_idx, stop)
        THEN [branch |-> "raise", lane |-> <<>>, is_braking |-> braking]
        ELSE IF EscapeValve(distance(base_waypoints, closest_idx, stop), nz, braking)
        THEN [branch |-> "escape", lane |-> new_base_waypoints, is_braking |-> braking]
        ELSE IF decelerate_raises(new_base_waypoints, closest_idx, stop)
        THEN [branch |-> "raise", lane |-> <<>>, is_braking |-> braking]
        ELSE [branch |-> "decel",
              lane |-> decelerate_waypoints(new_base_waypoints, closest_idx, stop),
              is_braking |-> TRUE]

InitConc ==
    /\ stopline_wp_idx = -1
    /\ pose = <<>>
    /\ base_waypoints = <<>>
    /\ waypoints_2d = <<>>
    /\ waypoint_tree = <<>>
    /\ is_braking = FALSE
    /\ current_vel = <<>>
    /\ pc = "62"
    /\ shutdown = FALSE
    /\ frame = NoFrame
    /\ cb = NoCall
    /\ final_waypoints = <<>>
    /\ last = NoIteration

\* A step of a subscriber thread or of rospy: the main thread stays where it is.
Elsewhere ==
    /\ Alive
    /\ UNCHANGED <<pc, frame, is_braking, final_waypoints, last>>

velocity_cb_step ==
    /\ Elsewhere
    /\ \E v \in ConcVelocities : current_vel' = <<v>>
    /\ UNCHANGED <<stopline_wp_idx, pose, base_waypoints, waypoints_2d,
                   waypoint_tree, shutdown, cb>>

pose_cb_step ==
    /\ Elsewhere
    /\ \E p \in ConcPositions : pose' = <<p>>
    /\ UNCHANGED <<stopline_wp_idx, current_vel, base_waypoints, waypoints_2d,
                   waypoint_tree, shutdown, cb>>

traffic_cb_step ==
    /\ Elsewhere
    /\ \E data \in ConcStops : stopline_wp_idx' = data
    /\ UNCHANGED <<pose, current_vel, base_waypoints, waypoints_2d,
                   waypoint_tree, shutdown, cb>>

signal_shutdown ==
    /\ Elsewhere
    /\ shutdown = FALSE
    /\ shutdown' = TRUE
    /\ UNCHANGED <<stopline_wp_idx, pose, current_vel, base_waypoints,
                   waypoints_2d, waypoint_tree, cb>>

\* A message of /base_waypoints arrives: waypoints_cb is called.
waypoints_cb_call ==
    /\ Elsewhere
    /\ cb.line = "idle"
    /\ \E waypoints \in ConcRoutes : cb' = [line |-> "151", waypoints |-> waypoints]
    /\ UNCHANGED <<stopline_wp_idx, pose, current_vel, base_waypoints,
                   waypoints_2d, waypoint_tree, shutdown>>

\* (variant: the route is stored before the spatial index is built)
waypoints_cb_152_route_first ==
    /\ Elsewhere
    /\ cb.line = "151"
    /\ waypoints_2d' = [k \in 1..Len(cb.waypoints) |->
                           <<cb.waypoints[k].x, cb.waypoints[k].y>>]
    /\ base_waypoints' = cb.waypoints
    /\ cb' = [cb EXCEPT !.line = "153"]
    /\ UNCHANGED <<stopline_wp_idx, pose, current_vel, waypoint_tree, shutdown>>

\* lines 151-152
waypoints_cb_152 ==
    /\ Elsewhere
    /\ cb.line = "151"
    /\ IF waypoints_2d = <<>>
       THEN /\ waypoints_2d' = [k \in 1..Len(cb.waypoints) |->
                                   <<cb.waypoints[k].x, cb.waypoints[k].y>>]
            /\ cb' = [cb EXCEPT !.line = "153"]
       ELSE /\ cb' = [cb EXCEPT !.line = "154"]
            /\ UNCHANGED waypoints_2d
    /\ UNCHANGED <<stopline_wp_idx, pose, current_vel, base_waypoints,
                   waypoint_tree, shutdown>>

\* line 153
waypoints_cb_153 ==
    /\ Elsewhere
    /\ cb.line = "153"
    /\ \E tie \in {"first", "last"} : waypoint_tree' = <<KDTree(waypoints_2d, tie)>>
    /\ cb' = [cb EXCEPT !.line = "154"]
    /\ UNCHANGED <<stopline_wp_idx, pose, current_vel, base_waypoints,
                   waypoints_2d, shutdown>>

\* lines 154-155
waypoints_cb_155 ==
    /\ Elsewhere
    /\ cb.line = "154"
    /\ IF base_waypoints = <<>>
       THEN base_waypoints' = cb.waypoints
       ELSE UNCHANGED base_waypoints
    /\ cb' = [cb EXCEPT !.line = "157"]
    /\ UNCHANGED <<stopline_wp_idx, pose, current_vel, waypoints_2d,
                   waypoint_tree, shutdown>>

\* lines 157-158: the callback returns, unsubscribed if both are stored.
waypoints_cb_158 ==
    /\ Elsewhere
    /\ cb.line = "157"
    /\ cb' = IF base_waypoints # <<>> /\ waypoints_2d # <<>>
             THEN [line |-> "unregistered", waypoints |-> <<>>]
             ELSE NoCall
    /\ UNCHANGED <<stopline_wp_idx, pose, current_vel, base_waypoints,
                   waypoints_2d, waypoint_tree, shutdown>>

\* A step of the main thread: nothing that the other threads own changes.
MainThread(line) ==
    /\ pc = line
    /\ UNCHANGED <<stopline_wp_idx, pose, current_vel, base_waypoints,
                   waypoints_2d, waypoint_tree, shutdown, cb>>

\* What the iteration in progress was, when it ends.
Outcome(branch, exc) ==
    [branch |-> branch, closest_idx |-> frame.closest_idx, stop |-> frame.stop,
     vel |-> frame.vel, was_braking |-> frame.was_braking, exc |-> exc]

\* An exception leaves loop(): the process ends.
RaiseAt(exc) ==
    /\ pc' = "crashed"
    /\ last' = Outcome("raise", exc)
    /\ UNCHANGED <<frame, is_braking, final_waypoints>>

\* generate_lane returns `lane`; publish_waypoints goes on to line 94.
Return(lane, branch, braking, f) ==
    /\ pc' = "94"
    /\ frame' = [f EXCEPT !.lane = lane, !.branch = branch]
    /\ is_braking' = braking
    /\ UNCHANGED <<final_waypoints, last>>

\* line 62: while not rospy.is_shutdown()
loop_62 ==
    /\ MainThread("62")
    /\ pc' = IF shutdown THEN "done" ELSE "63"
    /\ UNCHANGED <<frame, is_braking, final_waypoints, last>>

\* line 63
loop_63 ==
    /\ MainThread("63")
    /\ IF Gate
       THEN /\ pc' = "65"
            /\ frame' = [NoFrame EXCEPT !.was_braking = is_braking]
            /\ UNCHANGED last
       ELSE /\ pc' = "67"
            /\ last' = Outcome("skip", "none")
            /\ UNCHANGED frame
    /\ UNCHANGED <<is_braking, final_waypoints>>

\* line 65: the index it returns is not used (publish_waypoints, line 90).
loop_65 ==
    /\ MainThread("65")
    /\ IF waypoint_tree = <<>> \/ waypoints_2d = <<>>
       THEN RaiseAt("AttributeError")
       ELSE /\ pc' = "98"
            /\ UNCHANGED <<frame, is_braking, final_waypoints, last>>

\* lines 98-99
generate_lane_98 ==
    /\ MainThread("98")
    /\ IF waypoint_tree = <<>> \/ waypoints_2d = <<>>
       THEN RaiseAt("AttributeError")
       ELSE LET closest_idx ==
                    get_closest_waypoint_idx(pose[1], waypoint_tree[1], waypoints_2d)
            IN  /\ pc' = "101"
                /\ frame' = [frame EXCEPT !.closest_idx = closest_idx,
                                          !.farthest_idx = closest_idx + LOOKAHEAD_WPS]
                /\ UNCHANGED <<is_braking, final_waypoints, last>>

\* lines 101-105
generate_lane_101 ==
    /\ MainThread("101")
    /\ IF current_vel = <<>>
       THEN RaiseAt("AttributeError")
       ELSE /\ pc' = "108"
            /\ frame' = [frame EXCEPT
                   !.vel = current_vel,
                   !.nz = non_zero_current_vel(current_vel[1]),
                   !.new_base_waypoints =
                       PySlice(base_waypoints, frame.closest_idx, frame.farthest_idx)]
            /\ UNCHANGED <<is_braking, final_waypoints, last>>

\* The frame after a read of self.stopline_wp_idx.
Read(f) == [f EXCEPT !.reads = f.reads \cup {stopline_wp_idx}]

\* line 108, self.stopline_wp_idx == -1 (and lines 109-110)
generate_lane_108 ==
    /\ MainThread("108")
    /\ LET f == [Read(frame) EXCEPT !.stop = stopline_wp_idx]
       IN  IF stopline_wp_idx = -1
           THEN Return(frame.new_base_waypoints, "pass", FALSE, f)
           ELSE /\ pc' = "108b"
                /\ frame' = f
                /\ UNCHANGED <<is_braking, final_waypoints, last>>

\* line 108, self.stopline_wp_idx >= farthest_idx (and lines 109-110)
generate_lane_108b ==
    /\ MainThread("108b")
    /\ IF stopline_wp_idx >= frame.farthest_idx
       THEN Return(frame.new_base_waypoints, "pass", FALSE, Read(frame))
       ELSE /\ pc' = "111"
            /\ frame' = Read(frame)
            /\ UNCHANGED <<is_braking, final_waypoints, last>>

\* lines 111-112
generate_lane_111 ==
    /\ MainThread("111")
    /\ IF distance_raises(base_waypoints, frame.closest_idx, stopline_wp_idx)
       THEN RaiseAt("IndexError")
       ELSE IF frame.nz = 0
       THEN RaiseAt("ZeroDivisionError")
       ELSE IF EscapeValve(distance(base_waypoints, frame.closest_idx, stopline_wp_idx),
                           frame.nz, is_braking)
       THEN Return(frame.new_base_waypoints, "escape", is_braking, Read(frame))
       ELSE /\ pc' = "127"
            /\ frame' = [Read(frame) EXCEPT !.i = 0, !.temp = <<>>]
            /\ UNCHANGED <<is_braking, final_waypoints, last>>

\* lines 122-137, one waypoint of the for loop; lines 139 and 114-115 after
\* the last one
decelerate_waypoints_127 ==
    /\ MainThread("127")
    /\ IF frame.i < Len(frame.new_base_waypoints)
       THEN LET wp == frame.new_base_waypoints[frame.i + 1]
                stop_idx == StopIdx(stopline_wp_idx, frame.closest_idx)
            IN  IF distance_raises(frame.new_base_waypoints, frame.i, stop_idx)
                THEN RaiseAt("IndexError")
                ELSE LET dist == distance(frame.new_base_waypoints, frame.i, stop_idx)
                         p == [wp EXCEPT !.v = CappedVelocity(RampVelocity(dist), wp.v)]
                     IN  /\ pc' = pc
                         /\ frame' = [Read(frame) EXCEPT !.i = frame.i + 1,
                                                         !.temp = Append(frame.temp, p)]
                         /\ UNCHANGED <<is_braking, final_waypoints, last>>
       ELSE Return(frame.temp, "decel", TRUE, frame)

\* lines 91-94
publish_waypoints_94 ==
    /\ MainThread("94")
    /\ pc' = "67"
    /\ final_waypoints' = <<frame.lane>>
    /\ last' = Outcome(frame.branch, "none")
    /\ UNCHANGED <<frame, is_braking>>

\* line 67: rate.sleep() returns, or raises ROSInterruptException when rospy
\* was shut down (caught at line 186).  What the iteration published is
\* no longer the step just taken.
loop_67 ==
    /\ MainThread("67")
    /\ \/ pc' = "62"
       \/ shutdown /\ pc' = "interrupted"
    /\ frame' = NoFrame
    /\ final_waypoints' = <<>>
    /\ last' = NoIteration
    /\ UNCHANGED is_braking

LoopThread ==
    \/ loop_62
    \/ loop_63
    \/ loop_65
    \/ generate_lane_98
    \/ generate_lane_101
    \/ generate_lane_108
    \/ generate_lane_108b
    \/ generate_lane_111
    \/ decelerate_waypoints_127
    \/ publish_waypoints_94
    \/ loop_67

NextConc ==
    \/ velocity_cb_step
    \/ pose_cb_step
    \/ traffic_cb_step
    \/ signal_shutdown
    \/ waypoints_cb_call
    \/ waypoints_cb_152
    \/ waypoints_cb_153
    \/ waypoints_cb_155
    \/ waypoints_cb_158
    \/ LoopThread

SpecConc == InitConc /\ [][NextConc]_vars

\* The main thread is scheduled fairly (it is never starved by callbacks).
SpecConcFair == SpecConc /\ WF_vars(LoopThread)

-----------------------------------------------------------------------------
(* C15 *)

\* C15: index build happens-before query.  In every interleaving of the
\* statements of waypoints_cb with the iterations of the loop and the pose
\* updates, whenever the main thread is about to query the spatial index
\* (lines 65 and 98, through lines 72-76) the index and the 2D point list
\* are built, and whenever it is about to slice the route (line 105) the
\* route is stored as well.
C15_BuildBeforeQuery ==
    /\ pc \in {"65", "98", "101"} =>
           /\ waypoint_tree # <<>>
           /\ waypoints_2d # <<>>
           /\ waypoint_tree[1].data = waypoints_2d
    /\ pc = "101" => base_waypoints # <<>>
    /\ last.exc = "AttributeError" => current_vel = <<>>

\* An iteration is about to query the index while the invocation of
\* waypoints_cb that built it has not returned yet.
C15_Witness ==
    /\ pc = "98"
    /\ cb.line = "157"
    /\ waypoint_tree # <<>>
    /\ pose # <<>>

\* An iteration is skipped at the gate with a pose received and the 2D
\* points stored, because the index or the route is not stored yet.
C15_SkippedMidBuild ==
    /\ last.branch = "skip"
    /\ pose # <<>>
    /\ waypoints_2d # <<>>
    /\ base_waypoints = <<>>

-----------------------------------------------------------------------------
(* C16 *)

\* C16: cooperative shutdown (the steps).  Once rospy is shut down, an
\* iteration in progress runs to its publication (no step of it ends the
\* loop before line 94), and once the loop has observed the shutdown
\* nothing is published and no iteration starts.
C16_CooperativeShutdown ==
    [][/\ (shutdown /\ pc \in TickLines) => pc' \in TickLines \cup {"67"}
       /\ (shutdown /\ pc = "94" /\ pc' # pc) => final_waypoints' # <<>>
       /\ pc \in {"done", "interrupted"} =>
              (pc' = pc /\ final_waypoints' = final_waypoints)]_vars

\* The same, for the iterations in progress that raise no exception: this
\* holds.
C16_CooperativeShutdown_NoRaise ==
    [][/\ (shutdown /\ pc \in TickLines /\ pc' # "crashed")
              => pc' \in TickLines \cup {"67"}
       /\ (shutdown /\ pc = "94" /\ pc' # pc) => final_waypoints' # <<>>
       /\ pc \in {"done", "interrupted"} =>
              (pc' = pc /\ final_waypoints' = final_waypoints)]_vars

\* C16 (eventual exit): once rospy is shut down the loop eventually exits,
\* when the main thread is scheduled fairly.
C16_EventuallyExits == shutdown ~> (pc \in Exited)

\* An iteration in progress at the shutdown was published, and the loop then
\* observed the shutdown at line 62.
C16_PublishedAfterShutdown ==
    /\ shutdown
    /\ pc = "67"
    /\ final_waypoints # <<>>

-----------------------------------------------------------------------------
(* C17 *)

\* C17: is_braking mirrors the last publication.  After every iteration that
\* published a lane, is_braking is true if and only if the lane was a
\* deceleration rewrite (false after a pass-through and after an escape-valve
\* publication); and no callback (pose, speed, stop line, route, obstacle)
\* changes is_braking.
C17_BrakeStateMirrors ==
    [][/\ final_waypoints' # <<>> => (is_braking' <=> last'.branch = "decel")
       /\ last'.branch = "none" => is_braking' = is_braking]_vars

\* An iteration that was braking publishes a pass-through and resets
\* is_braking, with a stop line that is set but beyond the horizon.
C17_Witness ==
    /\ Emitted
    /\ last.branch = "pass"
    /\ last.was_braking
    /\ ~is_braking
    /\ last.stop # -1

\* An escape-valve publication, inside the horizon, leaves is_braking false.
C17_WitnessEscape ==
    /\ Emitted
    /\ last.branch = "escape"
    /\ InHorizon(last)
    /\ ~is_braking

-----------------------------------------------------------------------------
(* C18 *)

\* The lane published and is_braking are what generate_lane gives for the
\* stop-line index s, from the closest index, the speed and the is_braking
\* that the iteration read.
PolicyOf(s) ==
    LET g == generate_lane(s, frame.closest_idx, frame.nz, frame.was_braking)
    IN  g.branch # "raise" /\ g.lane = Lane /\ g.is_braking = is_braking

\* C18: per-iteration snapshot of the stop-line index.  With traffic_cb
\* interleaved with an iteration in progress, every read of
\* self.stopline_wp_idx in that iteration (the two tests of line 108, the
\* distance of line 111, the stop_idx of line 127 for each waypoint) returns
\* the same value, and a published lane is the lane of the decision policy
\* for that one value.
C18_StopLineSnapshot ==
    Emitted => \E s \in frame.reads : frame.reads = {s} /\ PolicyOf(s)

\* The same, for the iterations whose reads all returned one value: this
\* holds.
C18_SingleValueIterations ==
    (Emitted /\ Cardinality(frame.reads) = 1) => \A s \in frame.reads : PolicyOf(s)

\* A lane was published that is the lane of the decision policy for no
\* stop-line index at all: its speeds are taken from the ramps of two
\* different stop lines.
C18_MixedLane ==
    /\ Emitted
    /\ \A s \in ConcStops :
          generate_lane(s, frame.closest_idx, frame.nz, frame.was_braking).lane # Lane

\* A lane was published unchanged, with is_braking true and the last
\* stop-line index read -1.
C18_BrakingWithoutStop ==
    /\ Emitted
    /\ is_braking
    /\ stopline_wp_idx = -1
    /\ -1 \in frame.reads
    /\ \E k \in 1..Len(Lane) : Lane[k].v > 0

-----------------------------------------------------------------------------
(* C19 *)

\* The step is an iteration (past the gate) that starts with is_braking true,
\* reads a stop line inside the horizon and resolves an index at or past the
\* stop offset point, on a route of non-negative speeds.
C19_AtStop ==
    /\ is_braking
    /\ last'.branch \in {"pass", "escape", "decel", "raise"}
    /\ InHorizon(last')
    /\ last'.closest_idx >= last'.stop - 4
    /\ NonNegative(base_waypoints')

\* The step publishes a lane of speeds 0 and leaves is_braking true.
C19_Held ==
    /\ final_waypoints' # <<>>
    /\ \A k \in 1..Len(final_waypoints'[1]) : final_waypoints'[1][k].v = 0
    /\ is_braking'

\* C19: hold at stop.  With is_braking true and closestIdx >= stopLineIdx - 4
\* (the stop line may be behind the vehicle), every iteration that reads that
\* stop-line index (not -1, below closestIdx + 100) publishes a lane whose
\* speeds are all 0 and leaves is_braking true, whatever the current speed
\* is, for routes of non-negative speeds.
C19_HoldAtStop == [][C19_AtStop => C19_Held]_vars

\* The same, for the stop-line indices that distance (line 111) can index:
\* this holds.
C19_HoldAtStop_InRoute ==
    [][(C19_AtStop /\ ~distance_raises(base_waypoints', last'.closest_idx, last'.stop))
          => C19_Held]_vars

\* The vehicle is held: a lane of several points, all of speed 0, published
\* while braking with the stop line behind the resolved index.
C19_HeldState ==
    /\ Emitted
    /\ last.branch = "decel"
    /\ last.was_braking
    /\ last.stop < last.closest_idx
    /\ Len(Lane) > 1
    /\ \A k \in 1..Len(Lane) : Lane[k].v = 0

====
